---- MODULE Spec2Model ----
(***************************************************************************)
(* Automatic Poker Odds Calculator (src/calculator.py).                    *)
(*                                                                         *)
(* The module models                                                       *)
(*   - the capture chains of MacWindowManager and LinuxWindowManager       *)
(*     (capture_window, _capture_by_bounds, focus_window),                 *)
(*   - startup: construction of the window manager, window enumeration     *)
(*     (get_windows) of both managers and select_window,                   *)
(*   - the analysis client (analyze_screenshot, PokerAnalysis),            *)
(*   - the scan loop of main() running concurrently with the               *)
(*     keyboard_listener thread.                                           *)
(*                                                                         *)
(* Calls into the operating system and into libraries (subprocess,         *)
(* tempfile, PIL, mss, Quartz, requests) are the environment: each call's  *)
(* outcome is an input drawn from a small set, and the code's reaction to  *)
(* it is what the operators below compute.                                 *)
(***************************************************************************)
EXTENDS Integers, Sequences, FiniteSets, TLC

VARIABLES
    \* ---- capture chain (one state per capture_window call)
    plat,          \* platform.system(): "Darwin" or "Linux" (get_window_manager)
    window,        \* the selected WindowInfo
    capEnv,        \* what the platform answered during the last capture_window call
    capOut,        \* the last capture_window call: result, strategies invoked, ...
    tmpFiles,      \* temporary files that exist on disk
    calls,         \* number of capture_window calls made
    \* ---- one tick of main()
    screenshot,    \* main: screenshot (None or a bitmap)
    response,      \* what the analysis service answered in this tick
    last_analysis, \* main: last_analysis (a PokerAnalysis)
    escaped,       \* the exception that escaped the loop body, "none" if none did
    \* ---- main() and its scan loop
    scanPc,        \* where the main thread is
    iteration,     \* main: iteration
    now,           \* time.time(), in seconds
    loop_start,    \* main: loop_start
    elapsed,       \* main: elapsed
    sleep_time,    \* main: sleep_time
    slept,         \* argument of the tick's time.sleep call, 0 when it was skipped
    work,          \* time the tick's capture and analysis have taken so far
    sentOpponents, \* the opponents argument of the analyze_screenshot call (0: none in flight)
    tickOpponents, \* value of opponents when the tick started (0: after the capture)
    display,       \* what live.update was given in this tick
    sigint,        \* the operator's Ctrl+C has been delivered
    \* ---- shared state and the keyboard_listener thread
    opponents,     \* module-level opponents
    running,       \* module-level running
    listenerPc,    \* where the listener thread is
    key,           \* keyboard_listener: key ("none" while no key is being handled)
    \* ---- select_window
    tool,          \* LinuxWindowManager.tool
    enumerated,    \* the windows the platform enumerates (Quartz list, wmctrl lines)
    windows,       \* select_window: windows
    selectPc,      \* where select_window is
    host,          \* what the host has installed: Quartz bindings, wmctrl, xdotool
    reported       \* the last message printed during startup ("" if none)

captureVars == <<plat, window, capEnv, capOut, tmpFiles, calls>>
tickVars == <<screenshot, response, last_analysis, escaped>>
loopVars == <<scanPc, iteration, now, loop_start, elapsed, sleep_time, slept, work,
              sentOpponents, tickOpponents, display, sigint>>
listenerVars == <<opponents, running, listenerPc, key>>
selectVars == <<tool, enumerated, windows, selectPc, host, reported>>

vars == <<plat, window, capEnv, capOut, tmpFiles, calls,
          screenshot, response, last_analysis, escaped,
          scanPc, iteration, now, loop_start, elapsed, sleep_time, slept, work,
          sentOpponents, tickOpponents, display, sigint,
          opponents, running, listenerPc, key,
          tool, enumerated, windows, selectPc, host, reported>>

None == "None"

----------------------------------------------------------------------------
(* Bounds of the model *)

\* capture_window calls explored in a row
MaxCalls == 2
\* windows the platform enumerates
MaxWindows == 2
\* ticks of the scan loop explored
MaxIter == 2
\* longest duration, in seconds, of one capture and of one analysis request
MaxDur == 1
\* width and height of the simulated screen (sct.monitors[0])
ScreenSize == 4

----------------------------------------------------------------------------
(* Window Management: the capture chains *)

\* A bitmap is tagged with the strategy that produced it.
Bitmap(strategy) == "bitmap:" \o strategy

\* The declared order of the strategies of each manager's capture_window.
Chain(p) ==
    IF p = "Darwin" THEN <<"native", "bounds">>
    ELSE <<"import", "scrot", "bounds">>

\* Outcomes of one helper-tool attempt, as the primitive answers of the
\* platform: tmp  - tempfile.NamedTemporaryFile ("ok" | "raise"),
\*           run  - subprocess.run ("rc0" | "rc1" | "timeout" | "notfound"),
\*           exists - os.path.exists(tmp_path) after the run,
\*           open - Image.open / img.load ("ok" | "raise").
HelperOutcome(tmp, run, exists, open) ==
    [tmp |-> tmp, run |-> run, exists |-> exists, open |-> open]

HelperOk         == HelperOutcome("ok", "rc0", TRUE, "ok")
HelperNonZero    == HelperOutcome("ok", "rc1", TRUE, "ok")
HelperVanished   == HelperOutcome("ok", "rc0", FALSE, "ok")
HelperTimeout    == HelperOutcome("ok", "timeout", TRUE, "ok")
HelperNotFound   == HelperOutcome("ok", "notfound", TRUE, "ok")
HelperUnreadable == HelperOutcome("ok", "rc0", TRUE, "raise")
HelperTmpFail    == HelperOutcome("raise", "rc0", FALSE, "ok")

HelperOutcomes ==
    {HelperOk, HelperNonZero, HelperVanished, HelperTimeout, HelperNotFound,
     HelperUnreadable, HelperTmpFail}

\* Exception classes the platform calls raise.  All of them derive from
\* Exception; KeyboardInterrupt (the operator's Ctrl+C) does not.
ExceptionClasses ==
    {"TimeoutExpired", "FileNotFoundError", "OSError", "UnidentifiedImageError",
     "ScreenShotError", "ImportError", "ValueError"}

\* Results of a block of code: it returned a value, raised, or ran to its end.
Returned(v, files) == [kind |-> "return", value |-> v, exc |-> "none", files |-> files]
Raised(e, files)   == [kind |-> "raise", value |-> None, exc |-> e, files |-> files]
FellThrough(files) == [kind |-> "fall", value |-> None, exc |-> "none", files |-> files]

\* except Exception: the handler runs for every class deriving from Exception.
CaughtByException(e) == e \in ExceptionClasses

CaughtByNamedOnly(e) == e \in {"TimeoutExpired", "FileNotFoundError"}

\* except (subprocess.TimeoutExpired, FileNotFoundError, Exception):
CaughtByHelperClause(e) ==
    e \in {"TimeoutExpired", "FileNotFoundError"} \/ CaughtByException(e)

\* try: <block r>  except (...): pass
ExceptPass(r) ==
    IF r.kind = "raise" /\ CaughtByHelperClause(r.exc)
    THEN FellThrough(r.files)
    ELSE r

\* try: <block r>  except Exception: return None
ExceptReturnNone(r) ==
    IF r.kind = "raise" /\ CaughtByException(r.exc)
    THEN Returned(None, r.files)
    ELSE r

\* The body shared by method 1 and method 2: create the temporary file, run the
\* tool on it, read the image back, unlink the file.
HelperBody(strategy, o, files, tmp_path) ==
    IF o.tmp = "raise" THEN Raised("OSError", files)
    ELSE
      LET created == files \cup {tmp_path}
          after   == IF o.exists THEN created ELSE created \ {tmp_path}
      IN  CASE o.run = "timeout"  -> Raised("TimeoutExpired", created)
            [] o.run = "notfound" -> Raised("FileNotFoundError", created)
            [] OTHER ->
                 IF o.run = "rc0" /\ tmp_path \in after
                 THEN IF o.open = "raise"
                      THEN Raised("UnidentifiedImageError", after)
                      ELSE Returned(Bitmap(strategy), after \ {tmp_path})
                 ELSE IF tmp_path \in after
                      THEN FellThrough(after \ {tmp_path})
                      ELSE FellThrough(after)

\* LinuxWindowManager.focus_window: CalledProcessError becomes False, any
\* other exception of subprocess.run propagates.
FocusOutcomes == {"ok", "failed", "notfound"}

FocusWindow(o, files) ==
    CASE o = "ok"     -> Returned(TRUE, files)
      [] o = "failed" -> Returned(FALSE, files)
      [] OTHER        -> Raised("FileNotFoundError", files)

\* Method 1: ImageMagick import
Method1Import(env, files, tmp_path) ==
    ExceptPass(HelperBody("import", env.import, files, tmp_path))

\* Method 2: scrot (after focusing the window)
Method2Scrot(env, files, tmp_path) ==
    LET f == FocusWindow(env.focus, files)
    IN  ExceptPass(IF f.kind = "raise" THEN f
                   ELSE HelperBody("scrot", env.scrot, files, tmp_path))

Max(a, b) == IF a >= b THEN a ELSE b
Min(a, b) == IF a <= b THEN a ELSE b

\* The region handed to sct.grab; called is FALSE when sct.grab was not called.
Grab(left, top, width, height) ==
    [called |-> TRUE, left |-> left, top |-> top, width |-> width, height |-> height]

NoGrab == [called |-> FALSE, left |-> 0, top |-> 0, width |-> 0, height |-> 0]

\* Method 3: the region handed to sct.grab, clamped to the screen
ClampedRegion(w, screen) ==
    LET x == Max(0, w.x)
        y == Max(0, w.y)
    IN  Grab(x, y, Min(w.width, screen.width - x), Min(w.height, screen.height - y))

\* Method 3: mss with bounds clamping
Method3Mss(w, env, files) ==
    IF env.mss = "raise"
    THEN [res |-> ExceptReturnNone(Raised("ScreenShotError", files)), grab |-> NoGrab]
    ELSE LET monitor == ClampedRegion(w, env.screen)
         IN  IF monitor.width <= 0 \/ monitor.height <= 0
             THEN [res |-> Returned(None, files), grab |-> NoGrab]
             ELSE [res |-> Returned(Bitmap("bounds"), files), grab |-> monitor]

\* What capture_window hands back: the value returned (None or a bitmap), the
\* exception that escaped it ("none" when it returned), the strategies invoked
\* in order, the region grabbed by the bounds strategy, the files left on disk.
CaptureResult(r, invoked, grab) ==
    [result  |-> IF r.kind = "return" THEN r.value ELSE None,
     exc     |-> IF r.kind = "raise" THEN r.exc ELSE "none",
     invoked |-> invoked,
     grab    |-> grab,
     files   |-> r.files]

LinuxCaptureWindowScrotFirst(w, env, files, call) ==
    LET m2 == Method2Scrot(env, files, <<call, "scrot">>)
    IN  IF m2.kind # "fall" THEN CaptureResult(m2, <<"scrot">>, NoGrab)
        ELSE
          LET m1 == Method1Import(env, m2.files, <<call, "import">>)
          IN  IF m1.kind # "fall" THEN CaptureResult(m1, <<"scrot", "import">>, NoGrab)
              ELSE
                LET m3 == Method3Mss(w, env, m1.files)
                IN  CaptureResult(m3.res, <<"scrot", "import", "bounds">>, m3.grab)

\* LinuxWindowManager.capture_window: each method runs only when the one
\* before it neither returned nor let an exception escape.
LinuxCaptureWindow(w, env, files, call) ==
    LET m1 == Method1Import(env, files, <<call, "import">>)
    IN  IF m1.kind # "fall" THEN CaptureResult(m1, <<"import">>, NoGrab)
        ELSE
          LET m2 == Method2Scrot(env, m1.files, <<call, "scrot">>)
          IN  IF m2.kind # "fall" THEN CaptureResult(m2, <<"import", "scrot">>, NoGrab)
              ELSE
                LET m3 == Method3Mss(w, env, m2.files)
                IN  CaptureResult(m3.res, <<"import", "scrot", "bounds">>, m3.grab)

\* MacWindowManager._capture_by_bounds: the window's bounds as they are
MacCaptureByBounds(w, env, files) ==
    IF env.mss = "raise"
    THEN [res |-> ExceptReturnNone(Raised("ScreenShotError", files)), grab |-> NoGrab]
    ELSE [res |-> Returned(Bitmap("bounds"), files),
          grab |-> Grab(w.x, w.y, w.width, w.height)]

\* The try block of MacWindowManager.capture_window: Quartz delivers an image,
\* delivers None (then the block returns _capture_by_bounds), or the block raises.
MacNativeBody(w, env, files) ==
    CASE env.native = "ok"   -> [res |-> Returned(Bitmap("native"), files),
                                 grab |-> NoGrab, invoked |-> <<"native">>]
      [] env.native = "null" -> [res |-> MacCaptureByBounds(w, env, files).res,
                                 grab |-> MacCaptureByBounds(w, env, files).grab,
                                 invoked |-> <<"native", "bounds">>]
      [] OTHER               -> [res |-> Raised("ValueError", files),
                                 grab |-> NoGrab, invoked |-> <<"native">>]

\* MacWindowManager.capture_window
MacCaptureWindow(w, env, files) ==
    LET n == MacNativeBody(w, env, files)
    IN  IF n.res.kind = "raise" /\ CaughtByException(n.res.exc)
        THEN \* except Exception: return self._capture_by_bounds(window)
             LET b == MacCaptureByBounds(w, env, n.res.files)
             IN  CaptureResult(b.res, n.invoked \o <<"bounds">>, b.grab)
        ELSE CaptureResult(n.res, n.invoked, n.grab)

\* wm.capture_window(window) of the manager get_window_manager() selected
CaptureWindow(p, w, env, files, call) ==
    IF p = "Darwin" THEN MacCaptureWindow(w, env, files)
    ELSE LinuxCaptureWindow(w, env, files, call)

----------------------------------------------------------------------------
(* The simulated platform of a capture call *)

Screens == {[width |-> ScreenSize, height |-> ScreenSize]}

\* On Linux there is no native compositor capture ("unsupported").
LinuxEnvs ==
    [native : {"unsupported"}, import : HelperOutcomes, focus : FocusOutcomes,
     scrot : HelperOutcomes, mss : {"ok", "raise"}, screen : Screens]

\* On macOS the helper tools are never run; whether ImageMagick is installed
\* and would deliver a bitmap is still a fact of the platform.
MacEnvs ==
    [native : {"ok", "null", "raise"}, import : {HelperOk, HelperNotFound},
     focus : {"ok"}, scrot : {HelperNotFound}, mss : {"ok", "raise"},
     screen : Screens]

Envs(p) == IF p = "Darwin" THEN MacEnvs ELSE LinuxEnvs

NoEnv ==
    [native |-> "unsupported", import |-> HelperNotFound, focus |-> "ok",
     scrot |-> HelperNotFound, mss |-> "ok",
     screen |-> [width |-> ScreenSize, height |-> ScreenSize]]

NoCapture ==
    [result |-> None, exc |-> "none", invoked |-> <<>>, grab |-> NoGrab, files |-> {}]

WindowInfo(id, title, x, y, width, height) ==
    [id |-> id, title |-> title, x |-> x, y |-> y, width |-> width, height |-> height]

\* Windows the operator may have selected: inside the screen, hanging over its
\* left edge, starting at its right edge, and wider than the screen.
CaptureWindows ==
    {WindowInfo("0x1", "Poker", x, y, w, 2) :
        x \in {-1, 0, ScreenSize}, y \in {-1, 0}, w \in {2, ScreenSize + 1}}

----------------------------------------------------------------------------
(* API Client *)

\* JSON values and Python strings, tagged with their type: t is "str", "dict",
\* "absent" (the key is missing) or "none" (Python None); v is the text.
JStr(text)  == [t |-> "str", v |-> text]
JDict(text) == [t |-> "dict", v |-> text]
JAbsent     == [t |-> "absent", v |-> ""]
JNone       == [t |-> "none", v |-> ""]

\* Python truthiness, as `or` uses it
Truthy(j) == j.t \notin {"absent", "none"} /\ ~(j.t = "str" /\ j.v = "")

\* a or b
PyOr(a, b) == IF Truthy(a) THEN a ELSE b

\* if not isinstance(error_msg, str): error_msg = str(error_msg)
EnsureStr(j) == IF j.t = "str" THEN j ELSE JStr(j.v)

\* d.get(key, default) for a key holding j
Get(j, default) == IF j.t = "absent" THEN default ELSE j

\* The "data" object of a response; rates are in percent.
ApiData(t, win, lose, tie, hole) ==
    [t |-> t, win_rate |-> win, lose_rate |-> lose, tie_rate |-> tie,
     hole_cards |-> hole]

NoData   == ApiData("absent", 0, 0, 0, <<>>)
NullData == ApiData("null", 0, 0, 0, <<>>)
GoodData == ApiData("dict", 60, 30, 10, <<"Ah", "Kd">>)

\* PokerAnalysis(...)
PokerAnalysis(success, hole, community, opp, win, lose, tie, ours, theirs, msg) ==
    [success |-> success, hole_cards |-> hole, community_cards |-> community,
     opponents |-> opp, win_rate |-> win, lose_rate |-> lose, tie_rate |-> tie,
     our_hand_probabilities |-> ours, opponent_hand_probabilities |-> theirs,
     error_message |-> msg]

\* PokerAnalysis.from_error
FromError(message) ==
    PokerAnalysis(FALSE, <<>>, <<>>, 0, 0, 0, 0, <<>>, <<>>, message)

\* Results of a block of the client: a value, or an exception raised.
Ret(v) == [kind |-> "return", value |-> v, exc |-> "none"]
Exc(e) == [kind |-> "raise", value |-> FromError(JNone), exc |-> e]

\* PokerAnalysis.from_api_response, on a JSON object
FromApiResponse(data) ==
    IF data.success # "true"
    THEN Ret(FromError(Get(data.error, JStr("Unknown API error"))))
    ELSE \* result = data.get("data", {}); a null "data" has no .get
         IF data.data.t = "null" THEN Exc("AttributeError")
         ELSE Ret(PokerAnalysis(TRUE, data.data.hole_cards, <<>>, 0,
                                data.data.win_rate, data.data.lose_rate,
                                data.data.tie_rate, <<>>, <<>>, JNone))

\* What happened to the request: image.save raised ("save_error"), the
\* request timed out, the network failed, or a response arrived ("http") with
\* a status and a body.  json says what response.json() does: it delivers an
\* object ("dict") or a list ("list"), or raises ("invalid_req": a
\* JSONDecodeError deriving from RequestException, "invalid_val": a ValueError).
ApiResponse(kind, status, json, success, error, message, data) ==
    [kind |-> kind, status |-> status, json |-> json, success |-> success,
     error |-> error, message |-> message, data |-> data]

\* The "error" member an API answer may carry: no such member, null, an empty
\* text, a text, an object.
ErrorValues ==
    {JAbsent, JNone, JStr(""), JStr("quota exceeded"), JDict("{'code': 429}")}

StatusCodes == {200, 500}

HttpResponses ==
    {ApiResponse("http", st, "dict", su, er, me, da) :
        st \in StatusCodes, su \in {"absent", "true", "false"}, er \in ErrorValues,
        me \in {JAbsent, JStr("try later")}, da \in {NoData, NullData, GoodData}}
    \cup
    {ApiResponse("http", st, js, "absent", JAbsent, JAbsent, NoData) :
        st \in StatusCodes, js \in {"list", "invalid_req", "invalid_val"}}

Responses ==
    HttpResponses \cup
    {ApiResponse(k, 200, "dict", "absent", JAbsent, JAbsent, NoData) :
        k \in {"save_error", "timeout", "neterr"}}

NoResponse == ApiResponse("none", 200, "dict", "absent", JAbsent, JAbsent, NoData)

\* response.json()
ResponseJson(resp) ==
    CASE resp.json = "invalid_req" -> Exc("JSONDecodeError")
      [] resp.json = "invalid_val" -> Exc("ValueError")
      [] OTHER                     -> Ret(resp)

\* Lines 488-498: the error message of a response whose status is not 200
NonOkMessage(resp) ==
    LET fallback == JStr("API returned status " \o ToString(resp.status))
        error_data == ResponseJson(resp)
    IN  IF error_data.kind = "raise" \/ resp.json = "list"
        THEN fallback   \* except Exception: (a list has no .get)
        ELSE EnsureStr(PyOr(resp.error,
                            PyOr(resp.message,
                                 JStr("Status " \o ToString(resp.status)))))

\* The try block of analyze_screenshot
AnalyzeBody(resp) ==
    CASE resp.kind = "save_error" -> Exc("OSError")
      [] resp.kind = "timeout"    -> Exc("Timeout")
      [] resp.kind = "neterr"     -> Exc("ConnectionError")
      [] OTHER ->
           IF resp.status # 200 THEN Ret(FromError(NonOkMessage(resp)))
           ELSE LET data == ResponseJson(resp)
                IN  IF data.kind = "raise" THEN data
                    ELSE IF resp.json = "list" THEN Exc("AttributeError")
                    ELSE FromApiResponse(resp)

\* Classes deriving from requests.exceptions.RequestException
RequestExceptions == {"Timeout", "ConnectionError", "JSONDecodeError"}

\* analyze_screenshot: the except clauses in their order
AnalyzeScreenshot(resp) ==
    LET r == AnalyzeBody(resp)
    IN  IF r.kind # "raise" THEN r
        ELSE IF r.exc = "Timeout"
        THEN Ret(FromError(JStr("API request timed out")))
        ELSE IF r.exc \in RequestExceptions
        THEN Ret(FromError(JStr("Network error: " \o r.exc)))
        ELSE Ret(FromError(JStr("Error: " \o r.exc)))

\* main, lines 889-893: the analysis of a tick
TickAnalysis(shot, resp) ==
    IF shot = None
    THEN Ret(FromError(JStr("Failed to capture window")))
    ELSE AnalyzeScreenshot(resp)

\* main, line 875
WaitingForFirstScan == FromError(JStr("Waiting for first scan..."))

----------------------------------------------------------------------------
(* Window enumeration *)

\* A number as wmctrl prints it; num is FALSE for a column int() rejects.
Txt(n) == [num |-> TRUE, n |-> n]
NotANumber == [num |-> FALSE, n |-> 0]

\* A window of Quartz.CGWindowListCopyWindowInfo
MacRaw(number, name, owner, width, height) ==
    [number |-> number, name |-> name, owner |-> owner,
     width |-> width, height |-> height, x |-> 0, y |-> 0]

\* A line of `wmctrl -l -G`, split: nparts is len(parts); title is the text
\* after the hostname column when there is one.
LinuxRaw(nparts, wid, desktop, w, h, title) ==
    [nparts |-> nparts, wid |-> wid, desktop |-> desktop,
     x |-> Txt(0), y |-> Txt(0), w |-> w, h |-> h, title |-> title]

\* MacWindowManager.get_windows
MacGetWindows(window_list) ==
    LET Keep(win) ==
            /\ ~(win.name = "" /\ win.owner = "")
            /\ ~(win.width < 100 \/ win.height < 100)
        kept == SelectSeq(window_list, Keep)
    IN  [i \in 1..Len(kept) |->
            WindowInfo(ToString(kept[i].number),
                       IF kept[i].name # ""
                       THEN kept[i].owner \o ": " \o kept[i].name
                       ELSE kept[i].owner,
                       kept[i].x, kept[i].y, kept[i].width, kept[i].height)]

\* title = " ".join(title_parts) if title_parts else "(unnamed)"
LinuxTitle(line) == IF line.nparts > 8 THEN line.title ELSE "(unnamed)"

\* LinuxWindowManager.get_windows
LinuxGetWindows(t, lines) ==
    IF t # "wmctrl" THEN <<>>
    ELSE
      LET Keep(line) ==
              /\ line.nparts >= 8
              /\ ~(line.desktop = "-1" \/ LinuxTitle(line) \in {"", " "})
              \* int(x), int(y), int(w), int(h): ValueError skips the line
              /\ line.x.num /\ line.y.num /\ line.w.num /\ line.h.num
          kept == SelectSeq(lines, Keep)
      IN  [i \in 1..Len(kept) |->
              WindowInfo(kept[i].wid, LinuxTitle(kept[i]),
                         kept[i].x.n, kept[i].y.n, kept[i].w.n, kept[i].h.n)]

\* wm.get_windows() of the manager get_window_manager() selected
GetWindows(p, t, raw) ==
    IF p = "Darwin" THEN MacGetWindows(raw) ELSE LinuxGetWindows(t, raw)

\* What the platform may enumerate at position i
MacRaws(i) ==
    {MacRaw(i, name, owner, width, height) :
        name \in {"", "Table 1"}, owner \in {"", "PokerApp"},
        width \in {99, 100}, height \in {99, 100}}

LinuxRaws(i) ==
    {LinuxRaw(nparts, "0x" \o ToString(i), desktop, w, h, "Table 1") :
        nparts \in {7, 8, 9}, desktop \in {"-1", "0"},
        w \in {Txt(99), Txt(100), NotANumber}, h \in {Txt(99), Txt(100)}}

Raws(p, i) == IF p = "Darwin" THEN MacRaws(i) ELSE LinuxRaws(i)

\* Sequences of n enumerated windows, numbered by position
RECURSIVE Enumerations(_, _)
Enumerations(p, n) ==
    IF n = 0 THEN {<<>>}
    ELSE {Append(e, r) : e \in Enumerations(p, n - 1), r \in Raws(p, n)}

Tools(p) == IF p = "Darwin" THEN {"quartz"} ELSE {"wmctrl", "xdotool"}

\* What the host has: quartz says whether `import Quartz` succeeds; wmctrl and
\* xdotool say what `<tool> --version` does: it exits 0 ("ok"), exits non-zero
\* ("nonzero", CalledProcessError) or the tool is missing ("notfound").
Host(quartz, wmctrl, xdotool) ==
    [quartz |-> quartz, wmctrl |-> wmctrl, xdotool |-> xdotool]

ToolProbes == {"ok", "nonzero", "notfound"}

Hosts(p) ==
    IF p = "Darwin"
    THEN {Host(q, "notfound", "notfound") : q \in {"ok", "missing"}}
    ELSE {Host("missing", w, x) : w \in ToolProbes, x \in ToolProbes}

\* The host of a session that got as far as the scan loop
SessionHost == Host("ok", "ok", "ok")

\* LinuxWindowManager._detect_tool: the first of wmctrl, xdotool whose
\* --version run succeeds; None when neither does
DetectTool(h) ==
    IF h.wmctrl = "ok" THEN "wmctrl"
    ELSE IF h.xdotool = "ok" THEN "xdotool"
    ELSE None

----------------------------------------------------------------------------
(* Main Application: the scan loop and the keyboard listener *)

\* main, line 850
scan_interval == 1

Keys == {"UP", "DOWN", "OTHER"}

\* Where the main thread is while it is inside the try block of main
LoopPcs == {"start", "tick", "capture", "branch", "analyzing", "display",
            "elapsed", "sleep"}

\* The platform answers explored while the loop runs: the capture delivers a
\* bitmap or fails as a whole.
SessionEnvs(p) ==
    IF p = "Darwin"
    THEN {e \in MacEnvs : e.import = HelperNotFound /\ e.native # "raise"
                          /\ (e.native = "null" <=> e.mss = "raise")}
    ELSE {e \in LinuxEnvs : /\ e.import \in {HelperOk, HelperNonZero}
                            /\ e.focus = "failed" /\ e.scrot = HelperNonZero
                            /\ e.mss = "raise"}

\* The service answers explored while the loop runs
SessionResponses ==
    {ApiResponse("timeout", 200, "dict", "absent", JAbsent, JAbsent, NoData),
     ApiResponse("http", 500, "invalid_val", "absent", JAbsent, JAbsent, NoData),
     ApiResponse("http", 200, "dict", "false", JStr("quota exceeded"), JAbsent, NoData),
     ApiResponse("http", 200, "dict", "false", JDict("{'code': 429}"), JAbsent, NoData),
     ApiResponse("http", 200, "dict", "true", JAbsent, JAbsent, NullData),
     ApiResponse("http", 200, "dict", "true", JAbsent, JAbsent, GoodData)}

NothingRendered == [analysis |-> WaitingForFirstScan, opponents |-> 0, iteration |-> 0]

\* main, lines 879-880: start the keyboard thread
StartThread ==
    /\ scanPc = "start"
    /\ scanPc' = "tick"
    /\ listenerPc' = "loop"
    /\ UNCHANGED <<captureVars, tickVars, selectVars, opponents, running, key,
                   iteration, now, loop_start, elapsed, sleep_time, slept, work,
                   sentOpponents, tickOpponents, display, sigint>>

TickBeginCatchingUp ==
    /\ scanPc = "tick"
    /\ iteration < MaxIter
    /\ loop_start' = now
    /\ iteration' = iteration + (IF work > scan_interval THEN 2 ELSE 1)
    /\ work' = 0
    /\ tickOpponents' = opponents
    /\ scanPc' = "capture"
    /\ UNCHANGED <<captureVars, tickVars, selectVars, listenerVars,
                   now, elapsed, sleep_time, slept, sentOpponents, display, sigint>>

\* main, lines 882-884: while True: loop_start = time.time(); iteration += 1
TickBegin ==
    /\ scanPc = "tick"
    /\ iteration < MaxIter
    /\ loop_start' = now
    /\ iteration' = iteration + 1
    /\ work' = 0
    /\ tickOpponents' = opponents
    /\ scanPc' = "capture"
    /\ UNCHANGED <<captureVars, tickVars, selectVars, listenerVars,
                   now, elapsed, sleep_time, slept, sentOpponents, display, sigint>>

\* main, line 887: screenshot = wm.capture_window(window)
Capture ==
    /\ scanPc = "capture"
    /\ \E env \in SessionEnvs(plat), d \in 0..MaxDur :
         LET out == CaptureWindow(plat, window, env, tmpFiles, calls + 1)
         IN  /\ capEnv' = env
             /\ capOut' = out
             /\ tmpFiles' = out.files
             /\ escaped' = out.exc
             /\ screenshot' = IF out.exc = "none" THEN out.result ELSE screenshot
             /\ scanPc' = IF out.exc = "none" THEN "branch" ELSE "crashed"
             /\ now' = now + d
             /\ work' = work + d
    /\ calls' = calls + 1
    /\ UNCHANGED <<plat, window, response, last_analysis, selectVars, listenerVars,
                   iteration, loop_start, elapsed, sleep_time, slept,
                   sentOpponents, tickOpponents, display, sigint>>

\* main, lines 889-890: the capture failed
CaptureFailed ==
    /\ scanPc = "branch"
    /\ screenshot = None
    /\ last_analysis' = FromError(JStr("Failed to capture window"))
    /\ response' = NoResponse
    /\ tickOpponents' = 0
    /\ scanPc' = "display"
    /\ UNCHANGED <<captureVars, screenshot, escaped, selectVars, listenerVars,
                   iteration, now, loop_start, elapsed, sleep_time, slept, work,
                   sentOpponents, display, sigint>>

AnalyzeCallWithTickStartValue ==
    /\ scanPc = "branch"
    /\ screenshot # None
    /\ sentOpponents' = tickOpponents
    /\ tickOpponents' = 0
    /\ scanPc' = "analyzing"
    /\ UNCHANGED <<captureVars, tickVars, selectVars, listenerVars,
                   iteration, now, loop_start, elapsed, sleep_time, slept, work,
                   display, sigint>>

\* main, line 893: the call analyze_screenshot(screenshot, opponents, ...):
\* the global opponents is read when the arguments are evaluated
AnalyzeCall ==
    /\ scanPc = "branch"
    /\ screenshot # None
    /\ sentOpponents' = opponents
    /\ tickOpponents' = 0
    /\ scanPc' = "analyzing"
    /\ UNCHANGED <<captureVars, tickVars, selectVars, listenerVars,
                   iteration, now, loop_start, elapsed, sleep_time, slept, work,
                   display, sigint>>

\* main, line 893: analyze_screenshot posts the request and returns
AnalyzeReturn ==
    /\ scanPc = "analyzing"
    /\ \E resp \in SessionResponses, d \in 0..MaxDur :
         LET r == AnalyzeScreenshot(resp)
         IN  /\ response' = resp
             /\ escaped' = r.exc
             /\ last_analysis' = IF r.kind = "return" THEN r.value ELSE last_analysis
             /\ scanPc' = IF r.kind = "return" THEN "display" ELSE "crashed"
             /\ now' = now + d
             /\ work' = work + d
    /\ UNCHANGED <<captureVars, screenshot, selectVars, listenerVars,
                   iteration, loop_start, elapsed, sleep_time, slept,
                   sentOpponents, tickOpponents, display, sigint>>

\* create_win_rate_display, line 665: the text handed to rich's Text
ErrorText(analysis) == PyOr(analysis.error_message, JStr("Error"))

\* create_win_rate_display, lines 663-668: Text() takes a str and raises
\* AttributeError on any other object.  The class raised, or "none".
CreateWinRateDisplay(analysis) ==
    IF ~analysis.success /\ ErrorText(analysis).t # "str"
    THEN "AttributeError"
    ELSE "none"

\* main, lines 896-897: build_display(last_analysis, window.title, opponents,
\* iteration) reads the global opponents; live.update shows the result.  An
\* exception raised here is caught by no handler of main.
Display ==
    /\ scanPc = "display"
    /\ LET exc == CreateWinRateDisplay(last_analysis)
       IN  /\ escaped' = exc
           /\ display' = IF exc = "none"
                         THEN [analysis |-> last_analysis, opponents |-> opponents,
                               iteration |-> iteration]
                         ELSE display
           /\ scanPc' = IF exc = "none" THEN "elapsed" ELSE "crashed"
    /\ sentOpponents' = 0
    /\ UNCHANGED <<captureVars, screenshot, response, last_analysis, selectVars,
                   listenerVars, iteration, now, loop_start, elapsed, sleep_time,
                   slept, work, tickOpponents, sigint>>

SleepTimeFixed(interval, e) == interval

\* main, line 901: max(0, scan_interval - elapsed)
SleepTime(interval, e) == Max(0, interval - e)

\* main, lines 900-901
ComputeSleep ==
    /\ scanPc = "elapsed"
    /\ elapsed' = now - loop_start
    /\ sleep_time' = SleepTime(scan_interval, elapsed')
    /\ scanPc' = "sleep"
    /\ UNCHANGED <<captureVars, tickVars, selectVars, listenerVars,
                   iteration, now, loop_start, slept, work,
                   sentOpponents, tickOpponents, display, sigint>>

\* main, lines 902-903: if sleep_time > 0: time.sleep(sleep_time)
Sleep ==
    /\ scanPc = "sleep"
    /\ IF sleep_time > 0
       THEN now' = now + sleep_time /\ slept' = sleep_time
       ELSE now' = now /\ slept' = 0
    /\ scanPc' = "tick"
    /\ display' = NothingRendered
    /\ response' = NoResponse
    /\ UNCHANGED <<captureVars, screenshot, last_analysis, escaped, selectVars,
                   listenerVars, iteration, loop_start, elapsed, sleep_time, work,
                   sentOpponents, tickOpponents, sigint>>

\* main, lines 905-908: Ctrl+C raises KeyboardInterrupt in the main thread,
\* wherever it is inside the try block; no except clause below it catches it.
Interrupt ==
    /\ scanPc \in LoopPcs
    /\ sigint' = TRUE
    /\ scanPc' = "stopped"
    /\ sentOpponents' = 0
    /\ tickOpponents' = 0
    /\ display' = NothingRendered
    /\ response' = NoResponse
    /\ UNCHANGED <<captureVars, screenshot, last_analysis, escaped, selectVars,
                   listenerVars, iteration, now, loop_start, elapsed, sleep_time,
                   slept, work>>

\* main returns, or an exception leaves it, and the interpreter exits: the
\* daemon thread ends with it
ProcessExit ==
    /\ scanPc \in {"stopped", "crashed"}
    /\ scanPc' = "exited"
    /\ listenerPc' = "killed"
    /\ key' = "none"
    /\ UNCHANGED <<captureVars, tickVars, selectVars, opponents, running,
                   iteration, now, loop_start, elapsed, sleep_time, slept, work,
                   sentOpponents, tickOpponents, display, sigint>>

\* keyboard_listener, line 784: while running
ListenerLoop ==
    /\ listenerPc = "loop"
    /\ listenerPc' = IF running THEN "readkey" ELSE "done"
    /\ UNCHANGED <<captureVars, tickVars, selectVars, loopVars,
                   opponents, running, key>>

\* if key == UP and opponents < 9: ... elif key == DOWN and opponents > 1: ...
OpponentsAfterNoUpperBound(k, n) ==
    IF k = "UP" THEN n + 1
    ELSE IF k = "DOWN" /\ n > 1 THEN n - 1
    ELSE n

OpponentsAfterAnyKeyIncrements(k, n) ==
    IF k # "DOWN" /\ n < 9 THEN n + 1
    ELSE IF k = "DOWN" /\ n > 1 THEN n - 1
    ELSE n

\* keyboard_listener, lines 786-789: the value of opponents after key k
OpponentsAfter(k, n) ==
    IF k = "UP" /\ n < 9 THEN n + 1
    ELSE IF k = "DOWN" /\ n > 1 THEN n - 1
    ELSE n

\* keyboard_listener, line 785: key = readchar.readkey()
ReadKey ==
    /\ listenerPc = "readkey"
    /\ key' \in Keys
    /\ listenerPc' = "handle"
    /\ UNCHANGED <<captureVars, tickVars, selectVars, loopVars, opponents, running>>

HandleKeyResettingIteration ==
    /\ listenerPc = "handle"
    /\ opponents' = OpponentsAfter(key, opponents)
    /\ key' = "none"
    /\ listenerPc' = "loop"
    /\ iteration' = IF key = "OTHER" THEN 0 ELSE iteration
    /\ UNCHANGED <<captureVars, tickVars, selectVars, running,
                   scanPc, now, loop_start, elapsed, sleep_time, slept, work,
                   sentOpponents, tickOpponents, display, sigint>>

\* keyboard_listener, lines 786-789: the key is handled.  The listener is the
\* only thread that writes opponents, so the test and the update are one
\* step; key is not read again before the next readkey.
HandleKey ==
    /\ listenerPc = "handle"
    /\ opponents' = OpponentsAfter(key, opponents)
    /\ key' = "none"
    /\ listenerPc' = "loop"
    /\ UNCHANGED <<captureVars, tickVars, selectVars, loopVars, running>>

----------------------------------------------------------------------------
(* Specifications *)

NoWindows == <<>>

\* The session: a window has been selected, main is about to start the
\* keyboard thread (line 877).
Init ==
    /\ plat \in {"Darwin", "Linux"}
    /\ window = WindowInfo("0x1", "Poker", 0, 0, 2, 2)
    /\ capEnv = NoEnv
    /\ capOut = NoCapture
    /\ tmpFiles = {}
    /\ calls = 0
    /\ screenshot = None
    /\ response = NoResponse
    /\ last_analysis = WaitingForFirstScan
    /\ escaped = "none"
    /\ scanPc = "start"
    /\ iteration = 0
    /\ now = 0
    /\ loop_start = 0
    /\ elapsed = 0
    /\ sleep_time = 0
    /\ slept = 0
    /\ work = 0
    /\ sentOpponents = 0
    /\ tickOpponents = 0
    /\ display = NothingRendered
    /\ sigint = FALSE
    /\ opponents = 1
    /\ running = TRUE
    /\ listenerPc = "unstarted"
    /\ key = "none"
    /\ tool = "wmctrl"
    /\ enumerated = NoWindows
    /\ windows = NoWindows
    /\ selectPc = "selected"
    /\ host = SessionHost
    /\ reported = ""

Next ==
    \/ StartThread
    \/ TickBegin
    \/ Capture
    \/ CaptureFailed
    \/ AnalyzeCall
    \/ AnalyzeReturn
    \/ Display
    \/ ComputeSleep
    \/ Sleep
    \/ Interrupt
    \/ ProcessExit
    \/ ListenerLoop
    \/ ReadKey
    \/ HandleKey

Spec == Init /\ [][Next]_vars

\* Everything outside the part a specification is about stays as Init has it.
Idle ==
    /\ scanPc = "start"
    /\ iteration = 0
    /\ now = 0
    /\ loop_start = 0
    /\ elapsed = 0
    /\ sleep_time = 0
    /\ slept = 0
    /\ work = 0
    /\ sentOpponents = 0
    /\ tickOpponents = 0
    /\ display = NothingRendered
    /\ sigint = FALSE
    /\ opponents = 1
    /\ running = TRUE
    /\ listenerPc = "unstarted"
    /\ key = "none"

\* The capture chain alone: capture_window is called on a selected window.
InitCapture ==
    /\ plat \in {"Darwin", "Linux"}
    /\ window \in CaptureWindows
    /\ capEnv = NoEnv
    /\ capOut = NoCapture
    /\ tmpFiles = {}
    /\ calls = 0
    /\ screenshot = None
    /\ response = NoResponse
    /\ last_analysis = WaitingForFirstScan
    /\ escaped = "none"
    /\ Idle
    /\ tool = "wmctrl"
    /\ enumerated = NoWindows
    /\ windows = NoWindows
    /\ selectPc = "selected"
    /\ host = SessionHost
    /\ reported = ""

\* One call of wm.capture_window(window)
CaptureCall ==
    /\ calls < MaxCalls
    /\ \E env \in Envs(plat) :
         /\ capEnv' = env
         /\ capOut' = CaptureWindow(plat, window, env, tmpFiles, calls + 1)
         /\ tmpFiles' = capOut'.files
    /\ calls' = calls + 1
    /\ UNCHANGED <<plat, window, tickVars, loopVars, listenerVars, selectVars>>

NextCapture == CaptureCall

SpecCapture == InitCapture /\ [][NextCapture]_vars

\* The analysis of one tick alone (main, lines 889-893)
InitApi ==
    /\ plat = "Linux"
    /\ window = WindowInfo("0x1", "Poker", 0, 0, 2, 2)
    /\ capEnv = NoEnv
    /\ capOut = NoCapture
    /\ tmpFiles = {}
    /\ calls = 0
    /\ screenshot = None
    /\ response = NoResponse
    /\ last_analysis = WaitingForFirstScan
    /\ escaped = "none"
    /\ Idle
    /\ tool = "wmctrl"
    /\ enumerated = NoWindows
    /\ windows = NoWindows
    /\ selectPc = "selected"
    /\ host = SessionHost
    /\ reported = ""

\* The capture of a tick came back as shot and the service answered resp
AnalyzeTick ==
    /\ \E shot \in {None, Bitmap("import")}, resp \in Responses :
         LET r == TickAnalysis(shot, resp)
         IN  /\ screenshot' = shot
             /\ response' = IF shot = None THEN NoResponse ELSE resp
             /\ escaped' = r.exc
             /\ last_analysis' = IF r.kind = "return" THEN r.value ELSE last_analysis
    /\ UNCHANGED <<captureVars, loopVars, listenerVars, selectVars>>

NextApi == AnalyzeTick

SpecApi == InitApi /\ [][NextApi]_vars

\* No window has been selected yet
NoSelection == WindowInfo("", "", 0, 0, 0, 0)

\* Startup: main calls select_window (line 861), which constructs the window
\* manager, lists the windows and lets the operator choose one.
InitWindows ==
    /\ plat \in {"Darwin", "Linux"}
    /\ host \in Hosts(plat)
    /\ tool = None
    /\ \E n \in 0..MaxWindows : enumerated \in Enumerations(plat, n)
    /\ windows = NoWindows
    /\ selectPc = "constructing"
    /\ reported = ""
    /\ window = NoSelection
    /\ capEnv = NoEnv
    /\ capOut = NoCapture
    /\ tmpFiles = {}
    /\ calls = 0
    /\ screenshot = None
    /\ response = NoResponse
    /\ last_analysis = WaitingForFirstScan
    /\ escaped = "none"
    /\ scanPc = "select"
    /\ iteration = 0
    /\ now = 0
    /\ loop_start = 0
    /\ elapsed = 0
    /\ sleep_time = 0
    /\ slept = 0
    /\ work = 0
    /\ sentOpponents = 0
    /\ tickOpponents = 0
    /\ display = NothingRendered
    /\ sigint = FALSE
    /\ opponents = 1
    /\ running = TRUE
    /\ listenerPc = "unstarted"
    /\ key = "none"

\* select_window, line 803: wm = get_window_manager().  MacWindowManager has
\* no constructor; LinuxWindowManager.__init__ detects its tool and calls
\* sys.exit(1) when there is none.
ConstructManager ==
    /\ selectPc = "constructing"
    /\ IF plat = "Darwin"
       THEN /\ tool' = "quartz"
            /\ selectPc' = "scanning"
            /\ reported' = reported
       ELSE LET t == DetectTool(host)
            IN  /\ tool' = t
                /\ selectPc' = IF t = None THEN "exit1" ELSE "scanning"
                /\ reported' = IF t = None
                               THEN "Error: Neither 'wmctrl' nor 'xdotool' found."
                               ELSE reported
    /\ UNCHANGED <<captureVars, tickVars, loopVars, listenerVars,
                   enumerated, windows, host>>

\* select_window, line 806: windows = wm.get_windows().  On macOS a failing
\* `import Quartz` is reported and ends the process (lines 225-227).
ListWindows ==
    /\ selectPc = "scanning"
    /\ IF plat = "Darwin" /\ host.quartz = "missing"
       THEN /\ windows' = windows
            /\ selectPc' = "exit1"
            /\ reported' = "Error: PyObjC not found."
       ELSE /\ windows' = GetWindows(plat, tool, enumerated)
            /\ selectPc' = "listed"
            /\ reported' = reported
    /\ UNCHANGED <<captureVars, tickVars, loopVars, listenerVars,
                   tool, enumerated, host>>

\* select_window, lines 808-810: no window was listed
NoWindowsFound ==
    /\ selectPc = "listed"
    /\ windows = <<>>
    /\ reported' = "No visible windows found!"
    /\ selectPc' = "cancelled"
    /\ UNCHANGED <<captureVars, tickVars, loopVars, listenerVars,
                   tool, enumerated, windows, host>>

\* select_window, lines 812-841: the operator picks a window (its index) or
\* cancels (-1, or None when the prompt is aborted)
SelectWindow ==
    /\ selectPc = "listed"
    /\ windows # <<>>
    /\ \E selected \in -1..(Len(windows) - 1) :
         IF selected = -1
         THEN window' = window /\ selectPc' = "cancelled"
         ELSE window' = windows[selected + 1] /\ selectPc' = "selected"
    /\ UNCHANGED <<plat, capEnv, capOut, tmpFiles, calls, tickVars, loopVars,
                   listenerVars, tool, enumerated, windows, host, reported>>

\* main, lines 862-864: no window was selected
MainCancelled ==
    /\ scanPc = "select"
    /\ selectPc = "cancelled"
    /\ reported' = "Cancelled."
    /\ scanPc' = "exited"
    /\ UNCHANGED <<captureVars, tickVars, listenerVars, tool, enumerated, windows,
                   selectPc, host, iteration, now, loop_start, elapsed, sleep_time,
                   slept, work, sentOpponents, tickOpponents, display, sigint>>

\* main, lines 866-875: a window was selected; main goes on to the scan loop
MainProceeds ==
    /\ scanPc = "select"
    /\ selectPc = "selected"
    /\ scanPc' = "start"
    /\ UNCHANGED <<captureVars, tickVars, listenerVars, selectVars,
                   iteration, now, loop_start, elapsed, sleep_time,
                   slept, work, sentOpponents, tickOpponents, display, sigint>>

NextWindows ==
    \/ ConstructManager
    \/ ListWindows
    \/ NoWindowsFound
    \/ SelectWindow
    \/ MainCancelled
    \/ MainProceeds

SpecWindows == InitWindows /\ [][NextWindows]_vars

----------------------------------------------------------------------------
(* Capture chain: what the platform's answers say about each strategy *)

\* Strategy s, were it invoked on window w under platform answers env, would
\* deliver a bitmap.
Succeeds(p, s, w, env) ==
    CASE s = "native" -> env.native = "ok"
      [] s = "import" -> env.import = HelperOk
      [] s = "scrot"  -> env.focus # "notfound" /\ env.scrot = HelperOk
      [] OTHER        -> /\ env.mss = "ok"
                         /\ p = "Linux" =>
                              /\ Min(w.width, env.screen.width - Max(0, w.x)) > 0
                              /\ Min(w.height, env.screen.height - Max(0, w.y)) > 0

\* Index in Chain(p) of the first strategy that succeeds, Len + 1 when none does.
FirstSuccess(p, w, env) ==
    LET ch == Chain(p)
        ok == {i \in 1..Len(ch) : Succeeds(p, ch[i], w, env)}
    IN  IF ok = {} THEN Len(ch) + 1
        ELSE CHOOSE i \in ok : \A j \in ok : i <= j

\* The strategies are invoked in the declared order, exactly up to the first
\* one that succeeds, and the call returns that strategy's bitmap.
FirstSuccessWins ==
    calls > 0 =>
      LET ch == Chain(plat)
          k  == FirstSuccess(plat, window, capEnv)
      IN  IF k <= Len(ch)
          THEN /\ capOut.invoked = SubSeq(ch, 1, k)
               /\ capOut.result = Bitmap(ch[k])
          ELSE /\ capOut.invoked = ch
               /\ capOut.result = None

\* C2 (as stated): the strategies are attempted in the declared order up to the
\* first success, whose bitmap is returned; and when native capture returns null
\* while the helper tool delivers a bitmap, the call returns the helper tool's
\* bitmap and the bounds-based strategy is not invoked.
C2_Original ==
    /\ FirstSuccessWins
    /\ (calls > 0 /\ capEnv.native = "null" /\ capEnv.import = HelperOk) =>
          /\ capOut.result = Bitmap("import")
          /\ \A i \in 1..Len(capOut.invoked) : capOut.invoked[i] # "bounds"

\* C2 (amended): the strategies are attempted in the declared order up to the
\* first success, whose bitmap is returned.  The chains are native, bounds on
\* macOS and import, scrot, bounds on Linux: on Linux, when import fails and
\* scrot delivers a bitmap, that bitmap is returned and bounds is not invoked;
\* on macOS a null native capture is followed directly by bounds.
C2_ChainOrder ==
    /\ FirstSuccessWins
    /\ (calls > 0 /\ plat = "Linux" /\ capEnv.import # HelperOk
          /\ capEnv.focus # "notfound" /\ capEnv.scrot = HelperOk) =>
          /\ capOut.result = Bitmap("scrot")
          /\ capOut.invoked = <<"import", "scrot">>
    /\ (calls > 0 /\ plat = "Darwin" /\ capEnv.native = "null") =>
          capOut.invoked = <<"native", "bounds">>

\* A Linux call in which import failed and scrot delivered the bitmap.
C2_Witness ==
    /\ calls > 0
    /\ plat = "Linux"
    /\ capEnv.import = HelperTimeout
    /\ capOut.result = Bitmap("scrot")
    /\ capOut.invoked = <<"import", "scrot">>

\* C3: a strategy that raises, times out, exits non-zero or has an empty region
\* is followed by the next strategy of the chain; when every strategy fails the
\* call returns None; no exception escapes capture_window.
C3_FailuresFallThrough ==
    calls > 0 =>
      LET ch == Chain(plat)
      IN  /\ capOut.exc = "none"
          /\ \A i \in 1..Len(capOut.invoked) :
                (i < Len(ch) /\ ~Succeeds(plat, ch[i], window, capEnv)) =>
                    /\ Len(capOut.invoked) > i
                    /\ capOut.invoked[i + 1] = ch[i + 1]
          /\ (\A i \in 1..Len(ch) : ~Succeeds(plat, ch[i], window, capEnv)) =>
                /\ capOut.result = None
                /\ capOut.invoked = ch

\* A Linux call in which import timed out, scrot wrote an unreadable file and
\* the screen grab raised: the call returned None.
C3_Witness ==
    /\ calls > 0
    /\ plat = "Linux"
    /\ capEnv.import = HelperTimeout
    /\ capEnv.scrot = HelperUnreadable
    /\ capEnv.focus = "ok"
    /\ capEnv.mss = "raise"
    /\ capOut.result = None
    /\ capOut.exc = "none"
    /\ capOut.invoked = <<"import", "scrot", "bounds">>

\* C4: after every helper-tool attempt its temporary file is gone, so no
\* capture call leaves a temporary file on disk.
C4_NoResidualTempFile ==
    tmpFiles = {}

----------------------------------------------------------------------------
(* The scan loop and the keyboard listener *)

\* C1: opponents is an integer in 1..9 in every reachable state of the session,
\* whatever keys the listener handles and however its steps interleave with
\* the ticks of the scan loop.
C1_OpponentsInRange ==
    opponents \in 1..9

\* The listener has raised opponents to 9 while a request of the scan loop,
\* which read the counter, is in flight.
C1_Witness ==
    /\ opponents = 9
    /\ scanPc = "analyzing"
    /\ sentOpponents \in 1..9

\* C5 (as stated): the opponent count sent with the request is the value
\* opponents had when the tick started.
C5_Original ==
    [][(scanPc = "branch" /\ scanPc' = "analyzing")
          => sentOpponents' = tickOpponents]_vars

\* C5 (amended): the opponent count sent with the request is the value
\* opponents has when analyze_screenshot is called, after the capture has
\* returned; key events handled while the request is in flight do not change
\* the count that is sent.
C5_SentIsValueAtCall ==
    [][/\ (scanPc = "branch" /\ scanPc' = "analyzing")
            => (sentOpponents' = opponents /\ sentOpponents' \in 1..9)
       /\ (scanPc = "analyzing" /\ scanPc' \in {"analyzing", "display"})
            => sentOpponents' = sentOpponents]_vars

\* A request is in flight and a key handled since the call has changed
\* opponents: the request carries the value read at the call.
C5_Witness ==
    /\ scanPc = "analyzing"
    /\ sentOpponents \in 1..9
    /\ sentOpponents # opponents

\* C6: once Ctrl+C has been delivered the scan loop has left its loop, and by
\* the time main has returned the listener has seen running false and has
\* left its own loop.
C6_BothTasksObserveCancellation ==
    sigint =>
        /\ scanPc \notin LoopPcs
        /\ scanPc = "exited" => (~running /\ listenerPc = "done")

\* The service's answer to the tick's request is a failure.
ServiceFailed(resp) ==
    \/ resp.kind \in {"save_error", "timeout", "neterr"}
    \/ /\ resp.kind = "http"
       /\ \/ resp.status # 200
          \/ resp.json # "dict"
          \/ resp.success # "true"
          \/ resp.data.t = "null"

\* A PokerAnalysis the display shows as an error
DisplayableError(a) ==
    /\ a.success = FALSE
    /\ a.error_message.t = "str"
    /\ a.error_message.v # ""

\* C7: a tick whose capture or analysis request fails stores a displayable
\* error result and renders it in that tick, and the loop goes on to its next
\* tick; the loop is left only by Ctrl+C, never by an exception raised in a tick.
C7_TickFailuresAreSoft ==
    [][/\ escaped' = "none"
       /\ scanPc' # "crashed"
       /\ scanPc' \in {"stopped", "exited"} => sigint'
       /\ scanPc' \in {"elapsed", "sleep"} =>
            /\ display'.iteration = iteration'
            /\ display'.analysis = last_analysis'
            /\ screenshot' = None =>
                 last_analysis' = FromError(JStr("Failed to capture window"))
            /\ (screenshot' = None \/ ServiceFailed(response')) =>
                 DisplayableError(last_analysis')
       /\ (scanPc = "sleep" /\ scanPc' # "sleep") => scanPc' \in {"tick", "stopped"}
       /\ (scanPc \in LoopPcs /\ scanPc' \notin LoopPcs) =>
            (scanPc' = "stopped" /\ sigint')]_vars

\* C8: before the next tick the loop has slept max(0, T - p), where p is the
\* time the tick's processing took: nothing at all when p >= T, never a
\* negative and never a fixed duration.
C8_SleepIsResidual ==
    (scanPc = "tick" /\ iteration > 0) =>
        /\ slept = Max(0, scan_interval - work)
        /\ work >= scan_interval => slept = 0
        /\ slept >= 0
        /\ now = loop_start + work + slept

\* A tick took longer than the interval and the loop went on without sleeping.
C8_Witness ==
    /\ scanPc = "tick"
    /\ iteration > 0
    /\ work > scan_interval
    /\ slept = 0

----------------------------------------------------------------------------
(* Window enumeration *)

\* The id get_windows gives an enumerated window
RawId(p, r) == IF p = "Darwin" THEN ToString(r.number) ELSE r.wid

Listed(id) == \E j \in 1..Len(windows) : windows[j].id = id

\* Width or height of the enumerated window is below 100
TooSmall(p, r) ==
    IF p = "Darwin" THEN r.width < 100 \/ r.height < 100
    ELSE (r.w.num /\ r.w.n < 100) \/ (r.h.num /\ r.h.n < 100)

\* A titled window of width 100 and height 100
Titled100(p, r) ==
    IF p = "Darwin" THEN r.name # "" /\ r.width = 100 /\ r.height = 100
    ELSE r.nparts > 8 /\ r.w = Txt(100) /\ r.h = Txt(100)

\* C9: on every platform get_windows leaves out every window narrower or lower
\* than 100 and lists a titled window of width 100 and height 100.
C9_SizeFilter ==
    selectPc = "listed" =>
        \A i \in 1..Len(enumerated) :
            /\ TooSmall(plat, enumerated[i]) => ~Listed(RawId(plat, enumerated[i]))
            /\ Titled100(plat, enumerated[i]) => Listed(RawId(plat, enumerated[i]))

----------------------------------------------------------------------------
(* API client *)

\* The one failure shape
FailureShape(a) ==
    /\ a.success = FALSE
    /\ a.win_rate = 0 /\ a.tie_rate = 0 /\ a.lose_rate = 0
    /\ a.error_message.t \notin {"none", "absent"}

\* C10: every failure of a tick (capture failure, timeout, network error,
\* status other than 200, a 200 answer that is not a success) gives a result
\* with success false, all three rates zero and an error message; for a 200
\* answer {success: false, error: m} the error message is exactly m.
C10_OneFailureShape ==
    /\ escaped = "none"
    /\ (screenshot = None \/ ServiceFailed(response)) => FailureShape(last_analysis)
    /\ (/\ screenshot # None
        /\ response.kind = "http" /\ response.status = 200
        /\ response.json = "dict" /\ response.success = "false"
        /\ response.error.t # "absent")
          => last_analysis.error_message = response.error

----------------------------------------------------------------------------
(* Startup *)

\* The host has no window-enumeration mechanism for its platform
NoMechanism ==
    IF plat = "Darwin" THEN host.quartz = "missing"
    ELSE host.wmctrl # "ok" /\ host.xdotool # "ok"

\* A titled window of at least 100 by 100 on a desktop: one every variant's
\* enumeration is meant to list
Listable(p, r) ==
    IF p = "Darwin" THEN r.name # "" /\ r.width >= 100 /\ r.height >= 100
    ELSE /\ r.nparts > 8 /\ r.desktop # "-1"
         /\ r.w.num /\ r.w.n >= 100 /\ r.h.num /\ r.h.n >= 100

\* Fatal startup: without a mechanism the process prints a message and ends,
\* takes no further step, selects no window and runs no tick.
FatalWithoutMechanism ==
    /\ selectPc # "exit1"
    /\ NoMechanism' =>
         /\ selectPc' \in {"constructing", "scanning", "exit1"}
         /\ window' = NoSelection
         /\ scanPc' = "select"
         /\ iteration' = 0
    /\ selectPc' = "exit1" => (NoMechanism' /\ reported' # "")

\* A constructed manager can enumerate: its host has a mechanism, and the
\* listable windows the platform has are listed.
ConstructedCanEnumerate ==
    /\ selectPc' = "scanning" => ~NoMechanism'
    /\ (/\ selectPc' = "listed"
        /\ \E i \in 1..Len(enumerated') : Listable(plat', enumerated'[i]))
          => windows' # <<>>

\* C11: when the host has no window-enumeration mechanism the process reports
\* it and terminates at startup without retrying, no window is selected and no
\* tick runs; a window manager that was constructed can always enumerate the
\* windows.
C11_FatalStartup ==
    [][FatalWithoutMechanism /\ ConstructedCanEnumerate]_vars

----------------------------------------------------------------------------
(* The keyboard listener *)

\* C12: a handled key has exactly this effect on opponents: UP adds 1 below 9
\* and changes nothing at 9; DOWN subtracts 1 above 1 and changes nothing at 1;
\* any other key changes nothing.  No step changes the value by more than 1.
C12_KeyEffect ==
    [][/\ (listenerPc = "handle" /\ listenerPc' = "loop") =>
            /\ (key = "UP" /\ opponents < 9) => opponents' = opponents + 1
            /\ (key = "UP" /\ opponents = 9) => opponents' = 9
            /\ (key = "DOWN" /\ opponents > 1) => opponents' = opponents - 1
            /\ (key = "DOWN" /\ opponents = 1) => opponents' = 1
            /\ key \notin {"UP", "DOWN"} => opponents' = opponents
       /\ opponents' - opponents \in {-1, 0, 1}]_vars

\* Eight UP keys have been handled and a ninth is about to be, while a tick of
\* the scan loop is under way.
C12_Witness ==
    /\ listenerPc = "handle"
    /\ key = "UP"
    /\ opponents = 9
    /\ scanPc = "capture"

----------------------------------------------------------------------------
(* The scan loop: ticks and captures *)

\* C13: iteration starts at 0, goes up by exactly 1 when a tick begins and
\* changes at no other step; each tick makes exactly one capture_window call,
\* so after n completed ticks iteration = n and n captures have returned,
\* also when a tick took longer than the interval.
C13_OneCapturePerTick ==
    [][/\ iteration' = IF scanPc = "tick" /\ scanPc' = "capture"
                       THEN iteration + 1
                       ELSE iteration
       /\ calls' = IF scanPc = "capture" /\ scanPc' \in {"branch", "crashed"}
                   THEN calls + 1
                   ELSE calls
       /\ iteration' >= 0
       /\ scanPc' \in {"start", "tick"} => calls' = iteration'
       /\ scanPc' = "capture" => calls' = iteration' - 1
       /\ scanPc' \in {"branch", "analyzing", "display", "elapsed", "sleep"}
            => calls' = iteration']_vars

\* Two ticks are complete, the second took longer than the interval, and two
\* captures have returned.
C13_Witness ==
    /\ scanPc = "tick"
    /\ iteration = 2
    /\ calls = 2
    /\ work > scan_interval

----------------------------------------------------------------------------
(* What each thread writes *)

\* A step of the keyboard_listener thread
ListenerStep ==
    /\ listenerPc \in {"loop", "readkey", "handle"}
    /\ listenerPc' \in {"loop", "readkey", "handle", "done"}
    /\ listenerPc' # listenerPc

\* A step of the main thread
ScanStep == scanPc' # scanPc

\* C14: the two threads share one mutable value, opponents: a step of the
\* listener leaves iteration, last_analysis and every other variable of the
\* scan loop unchanged; a step of the scan loop leaves opponents unchanged;
\* opponents changes only in a step of the listener.
C14_OnlyOpponentsIsShared ==
    [][/\ ListenerStep => UNCHANGED <<iteration, last_analysis, screenshot,
                                       scanPc, loop_start, elapsed, sleep_time,
                                       display, captureVars>>
       /\ ScanStep => UNCHANGED <<opponents, running>>
       /\ opponents' # opponents => (ListenerStep /\ ~ScanStep)]_vars

\* The listener has handled keys during the first tick, whose result and
\* counter stand as the scan loop wrote them.
C14_Witness ==
    /\ scanPc = "elapsed"
    /\ iteration = 1
    /\ last_analysis.success
    /\ display.analysis = last_analysis
    /\ opponents = 3
    /\ listenerPc = "loop"

----------------------------------------------------------------------------
(* Bounds capture *)

\* The bounds strategy was the last one the call invoked
BoundsInvoked ==
    Len(capOut.invoked) > 0 /\ capOut.invoked[Len(capOut.invoked)] = "bounds"

\* Clamped to the screen, the window's region is empty
ClampedEmpty(w, screen) ==
    \/ Min(w.width, screen.width - Max(0, w.x)) <= 0
    \/ Min(w.height, screen.height - Max(0, w.y)) <= 0

\* C15: on every platform the region the bounds strategy asks the screen grab
\* for lies inside the screen (left >= 0, top >= 0, left + width <= screen
\* width, top + height <= screen height), whatever the window's bounds; when
\* the clamped region is empty the strategy grabs nothing and fails.
C15_GrabInsideScreen ==
    calls > 0 =>
        /\ capOut.grab.called =>
             /\ capOut.grab.left >= 0
             /\ capOut.grab.top >= 0
             /\ capOut.grab.left + capOut.grab.width <= capEnv.screen.width
             /\ capOut.grab.top + capOut.grab.height <= capEnv.screen.height
        /\ (BoundsInvoked /\ ClampedEmpty(window, capEnv.screen)) =>
             (~capOut.grab.called /\ capOut.result = None)

----------------------------------------------------------------------------
(* The opponent count of a tick *)

\* C16: in a tick that sent a request, the opponent count handed to
\* build_display for the status bar is the count that was sent with the
\* request, whatever keys the listener handles during the tick.
C16_RenderedCountIsSentCount ==
    [][(scanPc = "display" /\ scanPc' = "elapsed" /\ sentOpponents # 0)
          => display'.opponents = sentOpponents]_vars

====
